---- MODULE Spec2Model ----
(***************************************************************************)
(* Model of app/app_ecdsa.c (libacvp reference application): the ECDSA     *)
(* operation dispatcher app_ecdsa_handler in its two working build         *)
(* variants (OpenSSL 3 provider API, "modern"; FIPS object module API,     *)
(* "legacy"), the process-wide group key cache and app_ecdsa_cleanup.      *)
(* A run is one process built as one of the two variants.  The crypto      *)
(* library is an environment: its verdicts follow from an abstract         *)
(* key/signature algebra, its internal faults are inputs of each call.     *)
(***************************************************************************)
EXTENDS Integers, Sequences, FiniteSets, TLC

(* ------------------------------ bounds --------------------------------- *)
\* keys one variant may generate in a run
MaxKeys == 3
\* largest test group identifier presented (0 is a legal tg_id)
MaxTg == 1

(* ------------------------- program constants --------------------------- *)
NID_undef == 0
NullBN == 0 - 1
ByteBase == 256

(* -------------------------- resolver --------------------------------- *)
CurveNames == {"P-256", "P-384", "X-000"}
HashNames == {"SHA2-256", "NONE"}

\* get_nid_for_curve: protocol curve name -> nid, NID_undef when unknown
get_nid_for_curve(name) ==
    CASE name = "P-256" -> 1
      [] name = "P-384" -> 2
      [] OTHER -> NID_undef

\* get_md_string_for_hash_alg / get_md_for_hash_alg: 0 stands for NULL
get_md_for_hash_alg(name) ==
    IF name = "SHA2-256" THEN 1 ELSE 0

(* --------------------------- big-integer codec ------------------------- *)
RECURSIVE BN_bn2bin_LittleEndian(_)
\* the same bytes, least significant first
BN_bn2bin_LittleEndian(n) ==
    IF n = 0 THEN << >>
    ELSE <<n % ByteBase>> \o BN_bn2bin_LittleEndian(n \div ByteBase)

RECURSIVE BN_bn2bin(_)
\* minimal big-endian bytes of a non-negative integer; zero gives no bytes
BN_bn2bin(n) ==
    IF n = 0 THEN << >>
    ELSE Append(BN_bn2bin(n \div ByteBase), n % ByteBase)

RECURSIVE BN_bin2bn_LittleEndian(_)
\* the integer of the same bytes read least significant first
BN_bin2bn_LittleEndian(b) ==
    IF Len(b) = 0 THEN 0
    ELSE b[1] + ByteBase * BN_bin2bn_LittleEndian(Tail(b))

RECURSIVE BN_bin2bn(_)
\* big-endian bytes to integer; leading zero bytes do not count
BN_bin2bn(b) ==
    IF Len(b) = 0 THEN 0
    ELSE BN_bin2bn(SubSeq(b, 1, Len(b) - 1)) * ByteBase + b[Len(b)]

\* ec_point_to_pub_key: the public point the import step is given, made of
\* the two coordinate buffers of the TestCase
ec_point_to_pub_key(qx, qy) ==
    [x |-> BN_bin2bn(qx), y |-> BN_bin2bn(qy)]

(* ----------------------- crypto backend algebra ------------------------ *)
\* a key handle: nid 0 is a NULL handle, id 0 an allocated handle that
\* holds no key material
NoKey == [nid |-> NID_undef, id |-> 0]
EmptyKey(nid) == [nid |-> nid, id |-> 0]
NewKey(nid, id) == [nid |-> nid, id |-> id]
HasKey(k) == k.nid # NID_undef /\ k.id # 0

\* affine coordinates and private scalar of key id on curve nid
QxOf(k) == ByteBase * k.nid + k.id
QyOf(k) == 16 * k.id + k.nid
DOf(k) == 7 * k.id + k.nid

\* does (x, y) name a point of the curve nid
OnCurve(nid, x, y) ==
    \E id \in 1..MaxKeys :
        x = QxOf(NewKey(nid, id)) /\ y = QyOf(NewKey(nid, id))

\* the random nonces the signer draws
Nonces == {1, 2}

\* the signature key k makes over msg under digest md with a nonce
SigR(nonce) == nonce
SigS(k, md, msg) == 1 + msg + 4 * (md + 2 * (k.id + 4 * k.nid))

\* the verify primitive's verdict for a public point, digest and message
SigValid(nid, x, y, md, msg, r, s) ==
    \E id \in 1..MaxKeys :
        LET k == NewKey(nid, id) IN
        /\ x = QxOf(k) /\ y = QyOf(k)
        /\ r \in Nonces
        /\ s = SigS(k, md, msg)

(* ------------------------------ test case ------------------------------ *)
Ops == {"KEYGEN", "KEYVER", "SIGGEN", "SIGVER"}

\* the result of a call as the caller sees it, started from the TestCase
\* t as handed in (ver_disposition arrives zeroed).  written: output
\* fields stored by this call; gen: a key was generated; miss: SigGen found
\* another group in the cache; signed/signKey: the sign primitive was
\* invoked, and with which handle; ret: the call returned (did not crash);
\* fault: the backend-internal fault that fired in the call; held: backend
\* handles the call acquired and had not released when it returned (followed
\* for the modern variant only)
Entry(t) ==
    [rv |-> 1, ret |-> TRUE, qx |-> t.qx, qy |-> t.qy, d |-> << >>,
     r |-> t.r, s |-> t.s, ver |-> 0, written |-> {}, gen |-> FALSE,
     miss |-> FALSE, signed |-> FALSE, signKey |-> NoKey, fault |-> "none",
     held |-> {}]

Out(st, res) == [st |-> st, res |-> res]
Fault(res, f) == [res EXCEPT !.fault = f]
Crash(st, res) == Out([st EXCEPT !.crashed = TRUE], [res EXCEPT !.ret = FALSE])

\* the group key cache: ecdsa_current_tg, the group key handle, and the
\* group's coordinates; keyTg (history) is the group the handle's key was
\* generated for, nkeys counts the keys generated so far, crashed marks a
\* process that died in a NULL dereference
InitState ==
    [tg |-> 0, key |-> NoKey, Qx |-> NullBN, Qy |-> NullBN,
     keyTg |-> 0, nkeys |-> 0, crashed |-> FALSE]

Cache(st) == [tg |-> st.tg, key |-> st.key, Qx |-> st.Qx, Qy |-> st.Qy]

\* storing an output field of the TestCase (buffer and length)
Put(res, field, bytes) ==
    [res EXCEPT ![field] = bytes, !.written = @ \cup {field}]

(* ----------------------- steps both variants share --------------------- *)
\* resolution: the curve must have a nid, and for SigGen and SigVer the
\* hash must have a digest
ResolveFails_CurveOnly(op, nid, md) ==
    nid = NID_undef

\* ... with the digest looked up whatever the operation
ResolveFails_AnyOp(op, nid, md) ==
    nid = NID_undef \/ md = 0

ResolveFails(op, nid, md) ==
    \/ nid = NID_undef
    \/ op \in {"SIGGEN", "SIGVER"} /\ md = 0

\* if (ecdsa_current_tg != tc->tg_id)
CacheMiss_Always(st, t) ==
    TRUE

CacheMiss(st, t) ==
    st.tg # t.tg

\* KeyVer: ver_disposition is 1 exactly when the point was imported
KeyVerDisposition_Pass(imported) ==
    1

KeyVerDisposition(imported) ==
    IF imported THEN 1 ELSE 0

\* SigVer: ver_disposition is 1 exactly when the verify primitive gave 1
SigVerDisposition_NonNegative(verdict) ==
    IF verdict >= 0 THEN 1 ELSE 0

SigVerDisposition(verdict) ==
    IF verdict = 1 THEN 1 ELSE 0

(* ------------------- modern variant (OpenSSL >= 3.0) ------------------- *)
\* backend steps of the modern variant that can fail inside the library,
\* one name for the steps whose failure takes the same exit:
\*   nid2name  OSSL_EC_curve_nid2name                       (91-95)
\*   keygen    KEYGEN, context, init, group name, keygen    (107-124)
\*   get_d, get_qx, get_qy  KEYGEN exports                  (126-143)
\*   alloc     KEYVER/SIGVER, a checked allocation or init  (148-151,
\*             162-166, 246-250, 260-268, 291-300)
\*   bin2bn    SIGVER, BN_bin2bn of s gives NULL            (274-279)
\*   sig_obj   SIGVER, ECDSA_SIG_new or ECDSA_SIG_set0      (280-288)
\*   params    OSSL_PARAM_BLD_to_param gives NULL           (157, 255)
\*   generate  SIGGEN, context, init, group name, generate  (175-191)
\*   get_qx, get_qy  SIGGEN, EVP_PKEY_get_bn_param          (192-193)
\*   md_ctx    SIGGEN, EVP_MD_CTX_new                       (200-204)
\*   sign      SIGGEN, sign init, buffer, sign, decode      (205-236)
\*   verify    SIGVER, i2d_ECDSA_SIG or EVP_DigestVerify
\*             ends in an error                             (290, 301)
ModernFaults(op) ==
    {"none", "nid2name"} \cup
    CASE op = "KEYGEN" -> {"keygen", "get_d", "get_qx", "get_qy"}
      [] op = "KEYVER" -> {"alloc", "params"}
      [] op = "SIGGEN" -> {"generate", "get_qx", "get_qy", "md_ctx", "sign"}
      [] op = "SIGVER" -> {"alloc", "params", "bin2bn", "sig_obj", "verify"}
      [] OTHER -> {}

\* case ACVP_SUB_ECDSA_KEYGEN: d, qx, qy are stored one by one, each right
\* after its own export succeeded
ModernKeyGen(st, t, e, nid) ==
    LET k == NewKey(nid, e.kid)
        r0 == Entry(t)
        rg == [r0 EXCEPT !.gen = TRUE]
        rd == Put(rg, "d", BN_bn2bin(DOf(k)))
        rx == Put(rd, "qx", BN_bn2bin(QxOf(k)))
        ry == Put(rx, "qy", BN_bn2bin(QyOf(k)))
    IN  IF e.f = "keygen" THEN Out(st, Fault(r0, e.f))
        ELSE IF e.f = "get_d" THEN Out(st, Fault(rg, e.f))
        ELSE IF e.f = "get_qx" THEN Out(st, Fault(rd, e.f))
        ELSE IF e.f = "get_qy" THEN Out(st, Fault(rx, e.f))
        ELSE Out(st, [ry EXCEPT !.rv = 0])

\* case ACVP_SUB_ECDSA_KEYVER: a NULL params is reported but not acted on,
\* EVP_PKEY_fromdata then imports nothing and the case ends as "not verified"
ModernKeyVer(st, t, e, nid) ==
    LET r0 == Entry(t)
        paramsOk == e.f # "params"
        pub_key == ec_point_to_pub_key(t.qx, t.qy)
        imported == paramsOk /\ OnCurve(nid, pub_key.x, pub_key.y)
    IN  IF e.f = "alloc" THEN Out(st, Fault(r0, e.f))
        ELSE Out(st, [r0 EXCEPT !.rv = 0,
                                !.ver = KeyVerDisposition(imported),
                                !.fault = IF paramsOk THEN "none" ELSE e.f])

\* case ACVP_SUB_ECDSA_SIGGEN: ecdsa_current_tg is stored before the key is
\* generated; EVP_PKEY_generate and EVP_PKEY_get_bn_param fill the handles
\* already held and leave them as they were when they fail
ModernSigGen(st, t, e, nid, md) ==
    LET miss == CacheMiss(st, t)
        k == NewKey(nid, st.nkeys + 1)
        genFault == miss /\ e.f = "generate"
        getFault == miss /\ ~genFault /\ e.f \in {"get_qx", "get_qy"}
        s1 == IF miss THEN [st EXCEPT !.tg = t.tg] ELSE st
        s2 == IF miss /\ ~genFault
              THEN [s1 EXCEPT !.key = k, !.keyTg = t.tg, !.nkeys = @ + 1]
              ELSE s1
        s3 == IF miss /\ ~genFault /\ e.f # "get_qx"
              THEN [s2 EXCEPT !.Qx = QxOf(k)] ELSE s2
        s4 == IF miss /\ ~genFault /\ e.f # "get_qy"
              THEN [s3 EXCEPT !.Qy = QyOf(k)] ELSE s3
        r0 == [Entry(t) EXCEPT !.miss = miss]
        r1 == [r0 EXCEPT !.gen = miss /\ ~genFault,
                         !.fault = IF getFault THEN e.f ELSE "none"]
        r2 == [r1 EXCEPT !.signed = TRUE, !.signKey = s4.key]
        rr == Put(r2, "r", BN_bn2bin(SigR(e.nonce)))
        rs == Put(rr, "s", BN_bn2bin(SigS(s4.key, md, t.msg)))
        rx == Put(rs, "qx", BN_bn2bin(s4.Qx))
        ry == Put(rx, "qy", BN_bn2bin(s4.Qy))
    IN  IF genFault THEN Out(s1, Fault(r0, e.f))
        ELSE IF miss /\ (s4.Qx = NullBN \/ s4.Qy = NullBN) THEN Out(s4, r1)
        ELSE IF e.f = "md_ctx" THEN Out(s4, Fault(r1, e.f))
        \* EVP_DigestSignInit_ex fails when handed a NULL key
        ELSE IF ~HasKey(s4.key) THEN Out(s4, r2)
        ELSE IF e.f = "sign" THEN Out(s4, Fault(r2, e.f))
        \* BN_bn2bin(ecdsa_group_Qx, ..) on a NULL BIGNUM
        ELSE IF s4.Qx = NullBN THEN Crash(s4, rs)
        ELSE IF s4.Qy = NullBN THEN Crash(s4, rx)
        ELSE Out(s4, [ry EXCEPT !.rv = 0])

\* case ACVP_SUB_ECDSA_SIGVER: a failed import of the public key is an
\* error exit; any result of EVP_DigestVerify other than 1 leaves
\* ver_disposition at 0
ModernSigVer(st, t, e, nid, md) ==
    LET r0 == Entry(t)
        pub_key == ec_point_to_pub_key(t.qx, t.qy)
        x == pub_key.x
        y == pub_key.y
        imported == e.f # "params" /\ OnCurve(nid, x, y)
        verdict == IF e.f = "verify" THEN 0 - 1
                   ELSE IF SigValid(nid, x, y, md, t.msg,
                                    BN_bin2bn(t.r), BN_bin2bn(t.s))
                   THEN 1 ELSE 0
    IN  IF e.f = "alloc" THEN Out(st, Fault(r0, e.f))
        ELSE IF ~imported
        THEN Out(st, Fault(r0, IF e.f = "params" THEN e.f ELSE "none"))
        ELSE IF e.f \in {"bin2bn", "sig_obj"} THEN Out(st, Fault(r0, e.f))
        ELSE Out(st, [r0 EXCEPT !.rv = 0,
                                !.ver = SigVerDisposition(verdict),
                                !.fault = IF e.f = "verify"
                                          THEN e.f ELSE "none"])

\* the handles the err label releases
ErrRelease ==
    {"qx", "qy", "d", "pub_key", "sig", "pkey_pbld", "params", "sig_obj",
     "pkey", "sig_ctx", "pkey_ctx"}

\* local handles a call of operation op has acquired by the time it leaves,
\* f being the fault that fired (for a fault class, those of its last step)
ModernAcquired(op, f) ==
    CASE op = "KEYGEN" ->
           {"pkey_ctx"}
           \cup (IF f = "keygen" THEN {} ELSE {"pkey"})
           \cup (IF f \in {"keygen", "get_d"} THEN {} ELSE {"d"})
           \cup (IF f \in {"keygen", "get_d", "get_qx"} THEN {} ELSE {"qx"})
           \cup (IF f = "none" THEN {"qy"} ELSE {})
      [] op = "KEYVER" ->
           {"pub_key", "pkey_pbld", "params", "pkey_ctx", "pkey"}
      [] op = "SIGGEN" ->
           {"pkey_ctx", "sig_ctx", "sig", "sig_obj"}
      [] op = "SIGVER" ->
           {"pub_key", "pkey_pbld", "params", "pkey_ctx", "pkey", "in_r"}
           \cup (IF f = "bin2bn" THEN {} ELSE {"in_s"})
           \cup (IF f \in {"bin2bn", "sig_obj"} THEN {}
                 ELSE {"sig_obj", "sig", "sig_ctx"})
      [] OTHER -> {}

\* ECDSA_SIG_set0 hands in_r and in_s over to sig_obj, which then releases
\* them with itself
ModernReleased(op, f) ==
    ErrRelease \cup
    (IF op = "SIGVER" /\ f \notin {"bin2bn", "sig_obj"}
     THEN {"in_r", "in_s"} ELSE {})

\* app_ecdsa_handler, OPENSSL_VERSION_NUMBER >= 0x30000000L
ModernHandler(st, t, e) ==
    LET nid == get_nid_for_curve(t.curve)
        md == get_md_for_hash_alg(t.hash)
        out == IF t.op = "KEYGEN" THEN ModernKeyGen(st, t, e, nid)
               ELSE IF t.op = "KEYVER" THEN ModernKeyVer(st, t, e, nid)
               ELSE IF t.op = "SIGGEN" THEN ModernSigGen(st, t, e, nid, md)
               ELSE ModernSigVer(st, t, e, nid, md)
    IN  IF t.op \notin Ops THEN Out(st, Entry(t))
        ELSE IF ResolveFails("KEYGEN", nid, md) THEN Out(st, Entry(t))
        ELSE IF e.f = "nid2name" THEN Out(st, Fault(Entry(t), e.f))
        ELSE IF ResolveFails(t.op, nid, md) THEN Out(st, Entry(t))
        ELSE Out(out.st,
                 [out.res EXCEPT !.held = ModernAcquired(t.op, out.res.fault)
                                          \ ModernReleased(t.op, out.res.fault)])

(* ---------------- legacy variant (FIPS object module API) -------------- *)
\* backend steps of the legacy variant that can fail inside the library:
\*   alloc       a checked allocation, key construction or key
\*               generation outside SIGGEN      (403-419, 433-450, 528-559)
\*   get_pubkey  ec_get_pubkey                   (421-424, 487-490)
\*   bn_new      SIGGEN, FIPS_bn_new             (470-475)
\*   key_new     SIGGEN, EC_KEY_new_by_curve_name (476-480)
\*   generate    SIGGEN, EC_KEY_generate_key     (482-485)
\*   sign        SIGGEN, FIPS_ecdsa_sign_md      (497-502)
\*   bn_dup      SIGGEN, BN_dup                  (505-506)
\*   ub_crash    SIGGEN, the NULL key handed to FIPS_ecdsa_sign_md is
\*               dereferenced and the process dies (497)
\*   verify      SIGVER, FIPS_ecdsa_verify_md ends in an error (571)
LegacyFaults(op) ==
    {"none"} \cup
    CASE op = "KEYGEN" -> {"alloc", "get_pubkey"}
      [] op = "KEYVER" -> {"alloc"}
      [] op = "SIGGEN" ->
           {"bn_new", "key_new", "generate", "get_pubkey", "sign", "bn_dup",
            "ub_crash"}
      [] op = "SIGVER" -> {"alloc", "verify"}
      [] OTHER -> {}

\* case ACVP_SUB_ECDSA_KEYGEN: the three outputs are stored together, after
\* the last fallible step
LegacyKeyGen(st, t, e, nid) ==
    LET k == NewKey(nid, e.kid)
        r0 == Entry(t)
        rx == Put([r0 EXCEPT !.gen = TRUE], "qx", BN_bn2bin(QxOf(k)))
        ry == Put(rx, "qy", BN_bn2bin(QyOf(k)))
        rd == Put(ry, "d", BN_bn2bin(DOf(k)))
    IN  IF e.f = "alloc" THEN Out(st, Fault(r0, e.f))
        ELSE IF e.f = "get_pubkey"
        THEN Out(st, Fault([r0 EXCEPT !.gen = TRUE], e.f))
        ELSE Out(st, [rd EXCEPT !.rv = 0])

\* case ACVP_SUB_ECDSA_KEYVER, decoding the point into the group's BIGNUMs
\* instead of its own
LegacyKeyVer_IntoGroup(st, t, e, nid) ==
    LET r0 == Entry(t)
        onCurve == OnCurve(nid, BN_bin2bn(t.qx), BN_bin2bn(t.qy))
    IN  IF e.f = "alloc" THEN Out(st, Fault(r0, e.f))
        ELSE Out([st EXCEPT !.Qx = BN_bin2bn(t.qx), !.Qy = BN_bin2bn(t.qy)],
                 [r0 EXCEPT !.rv = 0, !.ver = KeyVerDisposition(onCurve)])

\* case ACVP_SUB_ECDSA_KEYVER
LegacyKeyVer(st, t, e, nid) ==
    LET r0 == Entry(t)
        onCurve == OnCurve(nid, BN_bin2bn(t.qx), BN_bin2bn(t.qy))
    IN  IF e.f = "alloc" THEN Out(st, Fault(r0, e.f))
        ELSE Out(st, [r0 EXCEPT !.rv = 0, !.ver = KeyVerDisposition(onCurve)])

\* case ACVP_SUB_ECDSA_SIGGEN: on a miss ecdsa_current_tg is stored and the
\* old group objects are freed before the new ones are built
LegacySigGen(st, t, e, nid, md) ==
    LET miss == CacheMiss(st, t)
        k == NewKey(nid, st.nkeys + 1)
        s1 == [st EXCEPT !.tg = t.tg, !.key = NoKey,
                         !.Qx = NullBN, !.Qy = NullBN]
        \* FIPS_bn_new gives a BIGNUM of value zero
        s2 == IF e.f = "bn_new" THEN [s1 EXCEPT !.Qy = 0]
              ELSE [s1 EXCEPT !.Qx = 0, !.Qy = 0]
        s3 == [s2 EXCEPT !.key = EmptyKey(nid)]
        s4 == [s3 EXCEPT !.key = k, !.keyTg = t.tg, !.nkeys = @ + 1]
        s5 == [s4 EXCEPT !.Qx = QxOf(k), !.Qy = QyOf(k)]
        sg == IF miss THEN s5 ELSE st
        r0 == [Entry(t) EXCEPT !.miss = miss]
        r1 == [r0 EXCEPT !.gen = miss]
        r2 == [r1 EXCEPT !.signed = TRUE, !.signKey = sg.key]
        rx == Put(r2, "qx", BN_bn2bin(sg.Qx))
        ry == Put(rx, "qy", BN_bn2bin(sg.Qy))
        rr == Put(ry, "r", BN_bn2bin(SigR(e.nonce)))
        rs == Put(rr, "s", BN_bn2bin(SigS(sg.key, md, t.msg)))
    IN  IF miss /\ e.f \in {"bn_new", "key_new"} THEN Out(s2, Fault(r0, e.f))
        ELSE IF miss /\ e.f = "generate" THEN Out(s3, Fault(r0, e.f))
        ELSE IF miss /\ e.f = "get_pubkey" THEN Out(s4, Fault(r1, e.f))
        ELSE IF t.msg = 0 THEN Out(sg, r1)
        \* FIPS_ecdsa_sign_md dereferences its key: NULL is undefined
        ELSE IF sg.key = NoKey
        THEN IF e.f = "ub_crash" THEN Crash(sg, Fault(r2, e.f)) ELSE Out(sg, r2)
        ELSE IF ~HasKey(sg.key) THEN Out(sg, r2)
        ELSE IF e.f = "sign" THEN Out(sg, Fault(r2, e.f))
        \* BN_bn2bin on a NULL group coordinate
        ELSE IF sg.Qx = NullBN THEN Crash(sg, r2)
        ELSE IF sg.Qy = NullBN THEN Crash(sg, rx)
        \* BN_bn2bin on the NULL result of BN_dup
        ELSE IF e.f = "bn_dup" THEN Crash(sg, Fault(ry, e.f))
        ELSE Out(sg, [rs EXCEPT !.rv = 0])

\* case ACVP_SUB_ECDSA_SIGVER: a point that is not on the curve leaves the
\* switch through points_err with ver_disposition as it arrived
LegacySigVer(st, t, e, nid, md) ==
    LET r0 == Entry(t)
        x == BN_bin2bn(t.qx)
        y == BN_bin2bn(t.qy)
        verdict == IF e.f = "verify" THEN 0 - 1
                   ELSE IF SigValid(nid, x, y, md, t.msg,
                                    BN_bin2bn(t.r), BN_bin2bn(t.s))
                   THEN 1 ELSE 0
    IN  IF t.msg = 0 THEN Out(st, r0)
        ELSE IF e.f = "alloc" THEN Out(st, Fault(r0, e.f))
        ELSE IF ~OnCurve(nid, x, y) THEN Out(st, [r0 EXCEPT !.rv = 0])
        ELSE Out(st, [r0 EXCEPT !.rv = 0,
                                !.ver = SigVerDisposition(verdict),
                                !.fault = IF e.f = "verify" THEN e.f ELSE "none"])

\* app_ecdsa_handler, ACVP_NO_RUNTIME with OpenSSL < 3.0
LegacyHandler(st, t, e) ==
    LET nid == get_nid_for_curve(t.curve)
        md == get_md_for_hash_alg(t.hash)
    IN  IF ResolveFails(t.op, nid, md) THEN Out(st, Entry(t))
        ELSE IF t.op \notin Ops THEN Out(st, Entry(t))
        ELSE IF t.op = "KEYGEN" THEN LegacyKeyGen(st, t, e, nid)
        ELSE IF t.op = "KEYVER" THEN LegacyKeyVer(st, t, e, nid)
        ELSE IF t.op = "SIGGEN" THEN LegacySigGen(st, t, e, nid, md)
        ELSE LegacySigVer(st, t, e, nid, md)

\* app_ecdsa_cleanup: frees the group objects; ecdsa_current_tg is left
Cleanup(st) ==
    [st EXCEPT !.key = NoKey, !.Qx = NullBN, !.Qy = NullBN]

\* the build: which app_ecdsa_handler the preprocessor kept
Variants == {"modern", "legacy"}

Handler(v, st, t, e) ==
    IF v = "modern" THEN ModernHandler(st, t, e) ELSE LegacyHandler(st, t, e)

Faults(v, op) ==
    IF v = "modern" THEN ModernFaults(op) ELSE LegacyFaults(op)

(* ------------------------------ the run -------------------------------- *)
VARIABLES
    variant, \* the build of this process
    tc,      \* the TestCase of the last call, as handed in
    st,      \* group key cache and process state
    res,     \* result of the last call
    seen     \* history: tg_id of the SigGen calls that returned success

vars == <<variant, tc, st, res, seen>>

Tgs == 0..MaxTg
GoodCurves == {c \in CurveNames : get_nid_for_curve(c) # NID_undef}
GoodHashes == {h \in HashNames : get_md_for_hash_alg(h) # 0}
Msgs == {1, 2}
GenIds == {1, 2}

K11 == NewKey(1, 1)
GoodPoint == [qx |-> BN_bn2bin(QxOf(K11)), qy |-> BN_bn2bin(QyOf(K11))]
PaddedPoint == [qx |-> <<0>> \o GoodPoint.qx, qy |-> <<0>> \o GoodPoint.qy]
BadPoint == [qx |-> GoodPoint.qx, qy |-> BN_bn2bin(QyOf(K11) + 1)]
NoPoint == [qx |-> << >>, qy |-> << >>]

\* public points a KeyVer vector carries: a point of P-256, the same point
\* zero-padded, and that point with Qy off by one
InPoints == {GoodPoint, PaddedPoint, BadPoint}

GoodS == SigS(K11, 1, 1)
GoodSig == [r |-> BN_bn2bin(SigR(1)), s |-> BN_bn2bin(GoodS)]
NoSig == [r |-> << >>, s |-> << >>]

\* what a SigVer vector carries: K11's signature over message 1 with its
\* point (also zero-padded), then one change each: Qy off by one, one bit of
\* s flipped, r zero, r not below the order, another message
GoodVector == [pt |-> GoodPoint, sig |-> GoodSig, msg |-> 1]
InVectors ==
    {GoodVector,
     [pt |-> PaddedPoint, sig |-> GoodSig, msg |-> 1],
     [pt |-> BadPoint, sig |-> GoodSig, msg |-> 1],
     [pt |-> GoodPoint, msg |-> 1,
      sig |-> [GoodSig EXCEPT !.s = BN_bn2bin(IF GoodS % 2 = 0 THEN GoodS + 1
                                                            ELSE GoodS - 1)]],
     [pt |-> GoodPoint, sig |-> [GoodSig EXCEPT !.r = <<0>>], msg |-> 1],
     [pt |-> GoodPoint, sig |-> [GoodSig EXCEPT !.r = <<255>>], msg |-> 1],
     [pt |-> GoodPoint, sig |-> GoodSig, msg |-> 2]}

TestCase(op, curve, hash, tg, msg, pt, sig) ==
    [op |-> op, curve |-> curve, hash |-> hash, tg |-> tg, msg |-> msg,
     qx |-> pt.qx, qy |-> pt.qy, r |-> sig.r, s |-> sig.s]

\* tc before the first call, and after a cleanup
NoCall == TestCase("START", "X-000", "NONE", 0, 1, NoPoint, NoSig)

Env(f, kid, nonce) == [f |-> f, kid |-> kid, nonce |-> nonce]

\* one call of app_ecdsa_handler
Call(t, e) ==
    /\ ~st.crashed
    /\ tc' = t
    /\ LET out == Handler(variant, st, t, e)
       IN  st' = out.st /\ res' = out.res
    /\ UNCHANGED variant

\* the curve and hash names and the backend fault of a call: names that
\* resolve (P-384 always with SHA2-256) without a fault, every backend fault
\* of the operation on P-256 with SHA2-256, and a curve that does not resolve
\* (no backend step is reached)
Plain == {x \in [curve : GoodCurves, hash : HashNames, f : {"none"}] :
             x.curve = "P-256" \/ x.hash = "SHA2-256"}
Faulty(op) == {[curve |-> "P-256", hash |-> "SHA2-256", f |-> f] :
                  f \in Faults(variant, op) \ {"none"}}
BadCurve == {[curve |-> c, hash |-> "SHA2-256", f |-> "none"] :
                c \in CurveNames \ GoodCurves}
Resolution(op) == Plain \cup Faulty(op) \cup BadCurve

\* the plain call on P-256 with SHA2-256
Basic(x) == x \in Plain /\ x.curve = "P-256" /\ x.hash = "SHA2-256"

Init ==
    /\ variant \in Variants
    /\ tc = NoCall
    /\ st = InitState
    /\ res = Entry(tc)
    /\ seen = {}

KeyGen ==
    \E x \in Resolution("KEYGEN"), kid \in GenIds :
        /\ Basic(x) \/ kid = 1
        /\ Call(TestCase("KEYGEN", x.curve, x.hash, 0, 1, NoPoint, NoSig),
                Env(x.f, kid, 1))
        /\ UNCHANGED seen

KeyVer ==
    \E x \in Resolution("KEYVER"), pt \in InPoints :
        /\ Basic(x) \/ pt = GoodPoint
        /\ Call(TestCase("KEYVER", x.curve, x.hash, 0, 1, pt, NoSig),
                Env(x.f, 1, 1))
        /\ UNCHANGED seen

SigGen ==
    \E x \in Resolution("SIGGEN"), tg \in Tgs, nonce \in Nonces :
        /\ st.nkeys < MaxKeys
        /\ Basic(x) \/ nonce = 1
        /\ Call(TestCase("SIGGEN", x.curve, x.hash, tg, 1, NoPoint, NoSig),
                Env(x.f, 1, nonce))
        /\ seen' = IF res'.ret /\ res'.rv = 0 THEN seen \cup {tg} ELSE seen

SigVer ==
    \E x \in Resolution("SIGVER"), v \in InVectors :
        /\ Basic(x) \/ v = GoodVector
        /\ Call(TestCase("SIGVER", x.curve, x.hash, 0, v.msg, v.pt, v.sig),
                Env(x.f, 1, 1))
        /\ UNCHANGED seen

\* a TestCase whose cipher is not an ECDSA mode (acvp_get_ecdsa_alg gives 0)
BadCipher ==
    \E c \in CurveNames :
        /\ Call(TestCase("NONE", c, "SHA2-256", 0, 1, NoPoint, NoSig),
                Env("none", 1, 1))
        /\ UNCHANGED seen

\* app_ecdsa_cleanup; no TestCase is involved
CleanupCall ==
    /\ ~st.crashed
    /\ st' = Cleanup(st)
    /\ tc' = [NoCall EXCEPT !.op = "CLEANUP"]
    /\ res' = Entry(tc')
    /\ UNCHANGED <<variant, seen>>

Next ==
    \/ KeyGen
    \/ KeyVer
    \/ SigGen
    \/ SigVer
    \/ BadCipher
    \/ CleanupCall

Spec == Init /\ [][Next]_vars

(* ------------------------- reading a state ----------------------------- *)
\* the last step was a call of the operation op
Called(op) == tc.op = op
\* ... that returned success
Succeeded == res.ret /\ res.rv = 0
\* ... that returned a failure
Failed == res.ret /\ res.rv # 0
\* the names of TestCase t resolve
CurveResolves(t) == t.curve \in GoodCurves
HashResolves(t) == t.hash \in GoodHashes
\* the public point and the signature of TestCase t, as the backend sees them
PointOnCurve(t) ==
    OnCurve(get_nid_for_curve(t.curve), BN_bin2bn(t.qx), BN_bin2bn(t.qy))
SignatureValid(t) ==
    SigValid(get_nid_for_curve(t.curve), BN_bin2bn(t.qx), BN_bin2bn(t.qy),
             get_md_for_hash_alg(t.hash), t.msg, BN_bin2bn(t.r), BN_bin2bn(t.s))

(* ------------------------------ claims --------------------------------- *)
\* C1: of two consecutive SigGen calls with the same groupId, the first of
\* which returned success, the second generates no key and, when it returns
\* success, reports the Qx,Qy the first reported.
C1_SameGroupSameKey ==
    [][(/\ Called("SIGGEN") /\ Succeeded
        /\ tc'.op = "SIGGEN" /\ tc'.tg = tc.tg)
       => (/\ ~res'.gen
           /\ (res'.ret /\ res'.rv = 0
                  => res'.qx = res.qx /\ res'.qy = res.qy))]_vars

\* a SigGen call that found its group in the cache, returned success and
\* reported the cached coordinates
C1_Witness ==
    /\ Called("SIGGEN") /\ Succeeded
    /\ ~res.miss /\ ~res.gen
    /\ res.qx = BN_bn2bin(st.Qx) /\ res.qy = BN_bn2bin(st.Qy)
    /\ {"qx", "qy"} \subseteq res.written


\* C2: a successful SigGen call whose groupId differs from the cached one
\* generates a fresh key pair, makes (groupId, new key) the cache entry and
\* reports the new key's Qx,Qy.
C2_MissGeneratesAndReports ==
    (Called("SIGGEN") /\ Succeeded /\ res.miss)
    => (/\ res.gen
        /\ st.tg = tc.tg /\ st.keyTg = tc.tg
        /\ HasKey(st.key) /\ st.key.id = st.nkeys
        /\ res.signKey = st.key
        /\ res.qx = BN_bn2bin(QxOf(st.key))
        /\ res.qy = BN_bn2bin(QyOf(st.key)))

\* C3: a SigGen call for group G that follows a failed SigGen call which
\* made G the current group never hands the sign primitive an absent key or
\* a key generated for another group.
C3_NoSignWithForeignKey ==
    [][(/\ Called("SIGGEN") /\ Failed /\ res.miss
        /\ tc'.op = "SIGGEN" /\ tc'.tg = tc.tg /\ res'.signed)
       => (HasKey(res'.signKey) /\ st'.keyTg = tc'.tg)]_vars

\* C4: a SigVer call whose names resolve and whose (Qx,Qy) is not a point of
\* the curve returns success with verified=false.
C4_InvalidPointIsNoFailure ==
    (/\ Called("SIGVER") /\ CurveResolves(tc) /\ HashResolves(tc)
     /\ res.fault = "none" /\ ~PointOnCurve(tc))
    => (Succeeded /\ res.ver = 0)

\* C5: a KeyVer call whose curve resolves, and in which no backend fault
\* fires, returns success, with verified=false for a point that is not on
\* the curve and verified=true for a point that is.
C5_KeyVerVerdict ==
    (Called("KEYVER") /\ CurveResolves(tc) /\ res.fault = "none")
    => (Succeeded /\ res.ver = IF PointOnCurve(tc) THEN 1 ELSE 0)

\* a KeyVer call on a point that is off the resolved curve, recorded as
\* success with verified=false
C5_Witness ==
    /\ Called("KEYVER") /\ CurveResolves(tc) /\ res.fault = "none"
    /\ ~PointOnCurve(tc)
    /\ Succeeded /\ res.ver = 0

\* C6: a SigVer call whose names resolve, with a valid public key and a
\* signature that is not valid for the message, returns success with
\* verified=false (also when the verify primitive ends in an error), as long
\* as no allocation of the call fails.
C6_BadSignatureIsNoFailure ==
    (/\ Called("SIGVER") /\ CurveResolves(tc) /\ HashResolves(tc)
     /\ res.fault \in {"none", "verify"}
     /\ PointOnCurve(tc) /\ ~SignatureValid(tc))
    => (Succeeded /\ res.ver = 0)

\* a SigVer call with a valid key and r = 0, recorded as success with
\* verified=false
C6_Witness ==
    /\ Called("SIGVER") /\ CurveResolves(tc) /\ HashResolves(tc)
    /\ res.fault = "none"
    /\ PointOnCurve(tc) /\ BN_bin2bn(tc.r) = 0
    /\ Succeeded /\ res.ver = 0

\* C7: a KeyVer or SigVer call returns success with verified=false only when
\* the backend judged the point or the signature invalid, never because of
\* a backend-internal fault.
C7_FaultIsNotAVerdict ==
    ((Called("KEYVER") \/ Called("SIGVER")) /\ Succeeded /\ res.ver = 0)
    => (/\ res.fault = "none"
        /\ (~PointOnCurve(tc) \/ (Called("SIGVER") /\ ~SignatureValid(tc))))

\* C8: a call whose curve does not resolve, or (SigGen, SigVer) whose hash
\* does not resolve, returns non-zero and leaves the cache and the rest of
\* the process state as they were, so that every later call behaves as if
\* it had not been made.
C8_ResolutionFailureIsInert ==
    [][(/\ tc'.op \in Ops
        /\ \/ ~CurveResolves(tc')
           \/ res'.fault = "nid2name"
           \/ tc'.op \in {"SIGGEN", "SIGVER"} /\ ~HashResolves(tc'))
       => (res'.ret /\ res'.rv # 0 /\ st' = st)]_vars

\* a SigGen call with an unresolvable hash, for another group than the
\* cached one, that failed and left the cached group and key in place
C8_Witness ==
    /\ Called("SIGGEN") /\ CurveResolves(tc) /\ ~HashResolves(tc)
    /\ Failed
    /\ HasKey(st.key) /\ st.tg # tc.tg /\ st.keyTg = st.tg

\* C9: a call that returns non-zero has stored no output field.
C9_FailureWritesNothing ==
    (tc.op \in Ops /\ Failed) => res.written = {}

\* C10: a SigGen call for a group that an earlier successful SigGen call
\* used, made while the cache is on another group, reports a failure and
\* generates no key.
C10_RegroupingDetected ==
    [][(/\ tc'.op = "SIGGEN" /\ tc'.tg \in seen /\ st.tg # tc'.tg
        /\ CurveResolves(tc') /\ HashResolves(tc')
        /\ res'.fault = "none")
       => (res'.ret /\ res'.rv # 0 /\ ~res'.gen)]_vars

\* the build the preprocessor did not keep, and what its handler makes of
\* the TestCase of the last call when no backend fault fires
OtherVariant == IF variant = "modern" THEN "legacy" ELSE "modern"
OtherResult == Handler(OtherVariant, st, tc, Env("none", 1, 1)).res

\* C11: on every KeyVer and SigVer case in which no backend fault fires, the
\* modern and the legacy handler give the same return code and the same
\* verified value.
C11_VariantsAgree ==
    ((Called("KEYVER") \/ Called("SIGVER")) /\ res.fault = "none")
    => (OtherResult.rv = res.rv /\ OtherResult.ver = res.ver)

\* the SigVer TestCase made of the last call's message, hash and curve and
\* of the r, s, Qx, Qy it reported, and what the handler of this build makes
\* of it when no backend fault fires
VerifyOfSigGen ==
    [tc EXCEPT !.op = "SIGVER", !.qx = res.qx, !.qy = res.qy,
               !.r = res.r, !.s = res.s]
VerifyOfSigGenResult == Handler(variant, st, VerifyOfSigGen, Env("none", 1, 1)).res

\* C12: the outputs of every successful SigGen call, fed to a SigVer call
\* with the same message, hash and curve, give success with verified=true.
C12_SignatureVerifies ==
    (Called("SIGGEN") /\ Succeeded)
    => (VerifyOfSigGenResult.rv = 0 /\ VerifyOfSigGenResult.ver = 1)

\* the KeyVer TestCase made of the last call's curve and of the Qx, Qy it
\* wrote, and what the handler of this build makes of it when no backend
\* fault fires
VerifyOfKeyGen == [tc EXCEPT !.op = "KEYVER", !.qx = res.qx, !.qy = res.qy]
VerifyOfKeyGenResult == Handler(variant, st, VerifyOfKeyGen, Env("none", 1, 1)).res

\* C13: the Qx,Qy written by a successful KeyGen call, fed to a KeyVer call
\* on the same curve, give success with verified=true.
C13_GeneratedKeyVerifies ==
    (Called("KEYGEN") /\ Succeeded)
    => (VerifyOfKeyGenResult.rv = 0 /\ VerifyOfKeyGenResult.ver = 1)

\* a successful KeyGen call on P-384 that wrote the coordinates of a key of
\* that curve
C13_Witness ==
    /\ Called("KEYGEN") /\ Succeeded /\ tc.curve = "P-384"
    /\ {"qx", "qy"} \subseteq res.written
    /\ OnCurve(get_nid_for_curve(tc.curve), BN_bin2bn(res.qx), BN_bin2bn(res.qy))

\* C14: a KeyGen, KeyVer or SigVer call, whether it succeeds or fails, leaves
\* the group key cache (and the rest of the process state) as it was, and
\* its result is the one the same call gives on the initial, empty cache.
C14_OnlySigGenTouchesCache ==
    [][(tc'.op \in {"KEYGEN", "KEYVER", "SIGVER"})
       => (/\ st' = st
           /\ \E kid \in GenIds :
                 res' = Handler(variant, InitState, tc',
                                Env(res'.fault, kid, 1)).res)]_vars

\* a successful KeyGen call made while the cache holds the key of group 1
C14_Witness ==
    /\ Called("KEYGEN") /\ Succeeded
    /\ HasKey(st.key) /\ st.tg = 1 /\ st.Qx # NullBN

RECURSIVE StripZeros(_)
\* a byte string without its leading zero bytes
StripZeros(b) ==
    IF Len(b) > 0 /\ b[1] = 0 THEN StripZeros(Tail(b)) ELSE b

\* the coordinate and signature buffers a TestCase carries in
InBuffers(t) == {t.qx, t.qy, t.r, t.s}

C16_FirstSigGenGenerates ==
    [][(tc'.op = "SIGGEN" /\ CurveResolves(tc') /\ HashResolves(tc')
        /\ res'.fault # "nid2name")
       => (/\ st = InitState => res'.miss
           /\ st = InitState /\ res'.fault = "none" => res'.gen
           /\ res'.signed => HasKey(res'.signKey))]_vars

\* C17: app_ecdsa_cleanup leaves the cache without key and coordinates, and
\* the SigGen call that follows it for a group that a SigGen call before the
\* cleanup signed for, when its names resolve and no backend fault fires,
\* is a cache miss that generates a key.
C17_CleanupReinitializes ==
    [][/\ tc'.op = "CLEANUP"
          => (st'.key = NoKey /\ st'.Qx = NullBN /\ st'.Qy = NullBN)
       /\ (/\ tc.op = "CLEANUP" /\ tc'.op = "SIGGEN" /\ tc'.tg \in seen
           /\ CurveResolves(tc') /\ HashResolves(tc') /\ res'.fault = "none")
          => (res'.miss /\ res'.gen)]_vars

\* C18: in the modern variant a call that returns holds none of the backend
\* handles it acquired, on the success path and on every error path.
C18_HandlesReleased ==
    (variant = "modern" /\ tc.op \in Ops /\ res.ret) => res.held = {}

\* C19: the result of a KeyGen or KeyVer call is the one the same call gives
\* with any other hash name; a SigGen or SigVer call whose curve resolves
\* and whose hash does not returns non-zero having generated, signed,
\* acquired, written and cached nothing.
C19_HashOnlyForSignatures ==
    [][/\ tc'.op \in {"KEYGEN", "KEYVER"}
          => \A h \in HashNames : \E kid \in GenIds :
                res' = Handler(variant, st, [tc' EXCEPT !.hash = h],
                               Env(res'.fault, kid, 1)).res
       /\ (/\ tc'.op \in {"SIGGEN", "SIGVER"}
           /\ CurveResolves(tc') /\ ~HashResolves(tc')
           /\ res'.fault # "nid2name")
          => (/\ res'.ret /\ res'.rv # 0
              /\ ~res'.gen /\ ~res'.signed
              /\ res'.held = {} /\ res'.written = {}
              /\ st' = st)]_vars

\* a KeyGen call that succeeded although its hash name does not resolve
C19_Witness ==
    Called("KEYGEN") /\ Succeeded /\ ~HashResolves(tc)

====
